---------------------------- MODULE Spec2Model ----------------------------
(***************************************************************************)
(* A model of kani-driver's entry point (src/kani-driver/src/main.rs):     *)
(* the invocation router determine_invocation_type, the two mode mains,    *)
(* and verify_project with the JSON report it accumulates and exports;     *)
(* and of kani-mcp-server's KaniWrapper::verify                            *)
(* (src/kani-mcp-server/src/kani_wrapper.rs).                              *)
(*                                                                         *)
(* Conventions.                                                            *)
(*   Option<T>      : <<>> is None, <<v>> is Some(v); in a JSON record     *)
(*                    <<>> is null.                                        *)
(*   OsString / path: a sequence of path components, <<"bin","kani">> is   *)
(*                    bin/kani, <<"kani">> is the literal token kani.      *)
(*   String         : a sequence of one-character strings where the code   *)
(*                    builds it by formatting (cbmc_runtime).              *)
(*   Duration       : a whole number of microseconds.                      *)
(***************************************************************************)
EXTENDS Integers, Sequences, FiniteSets, TLC

VARIABLES
    pc,             \* the control position of the process
    argv,           \* std::env::args_os()
    invocation,     \* Option<InvocationType>, set by main line 51
    command,        \* the parsed subcommand (args.command)
    session,        \* Option<KaniSession>: [only_codegen, coverage]
    project,        \* project.get_all_harnesses()
    harnesses,      \* verify_project: the selected harnesses
    results,        \* verify_project: the outcomes the runner has produced
    cbmc_info_opt,  \* verify_project: Option<CbmcInfo>
    handler,        \* verify_project: the JsonHandler's document
    i,              \* the index of the for loop being executed
    result,         \* Option<Result<()>> of the mode main: <<"Ok">>, <<"Err">>
    exit_code,      \* Option<ExitCode> of the process
    trace           \* history: the calls made so far, in order

vars == << pc, argv, invocation, command, session, project, harnesses, results,
           cbmc_info_opt, handler, i, result, exit_code, trace >>

\* The state of a KaniWrapper::verify call of kani-mcp-server
\* (src/kani-mcp-server/src/kani_wrapper.rs), a process of its own.
VARIABLES
    w_pc,           \* the control position inside verify
    options,        \* the KaniOptions verify is called with
    path_exists,    \* whether options.path exists on the file system
    cmd,            \* Option<Command>: the arguments of the command built
    spawns,         \* history: how many times a child was asked for
    output,         \* Option<Output> of the child: status, stdout, stderr
    verify_result   \* Option<Result<VerificationResult>>: verify's return

wvars == << w_pc, options, path_exists, cmd, spawns, output, verify_result >>

None == << >>
Some(v) == << v >>

(***************************************************************************)
(* Bounds.                                                                 *)
(***************************************************************************)
MaxArgs == 3
MaxHarnesses == 3
MaxReportHarnesses == 2
MaxLines == 2

(***************************************************************************)
(* The invocation router.                                                  *)
(***************************************************************************)
\* The command-line arguments the router is tried on: the two tool names,
\* bare and behind a directory, another name, the empty string and a path
\* that has no file name.
Arguments ==
    { <<"kani">>, <<"cargo-kani">>, <<"bin", "kani">>, <<"bin", "cargo-kani">>,
      <<"foo">>, << >>, <<"bin", "..">> }

RECURSIVE SeqsUpTo(_, _)
SeqsUpTo(S, n) ==
    IF n = 0 THEN { << >> }
    ELSE LET shorter == SeqsUpTo(S, n - 1)
         IN  shorter \cup { Append(s, x) : s \in { t \in shorter : Len(t) = n - 1 }, x \in S }

\* Path::file_name: the last component, unless the path is empty or ends in "..".
file_name(path) ==
    IF path = << >> \/ path[Len(path)] = ".." THEN None
    ELSE Some(<< path[Len(path)] >>)

\* util::executable_basename(&args.first())
executable_basename(first) ==
    IF first = None THEN None ELSE file_name(first[1])

\* Vec::first, Vec::get(1) (zero-based) and Vec::remove(1)
first(args) == IF Len(args) >= 1 THEN Some(args[1]) ELSE None
get1(args) == IF Len(args) >= 2 THEN Some(args[2]) ELSE None
remove1(args) == << args[1] >> \o SubSeq(args, 3, Len(args))

CargoKani(args) == [type |-> "CargoKani", args |-> args]
Standalone == [type |-> "Standalone", args |-> << >>]

determine_invocation_type_keeps_token(args) ==
    LET exe == executable_basename(first(args))
    IN  IF Some(<<"kani">>) = get1(args) THEN CargoKani(args)
        ELSE IF Some(<<"kani">>) = exe THEN Standalone
        ELSE IF Some(<<"cargo-kani">>) = exe THEN CargoKani(args)
        ELSE Standalone

determine_invocation_type_basename_first(args) ==
    LET exe == executable_basename(first(args))
    IN  IF Some(<<"kani">>) = exe THEN Standalone
        ELSE IF Some(<<"kani">>) = get1(args) THEN CargoKani(remove1(args))
        ELSE IF Some(<<"cargo-kani">>) = exe THEN CargoKani(args)
        ELSE Standalone

determine_invocation_type(args) ==
    LET exe == executable_basename(first(args))
    IN  IF Some(<<"kani">>) = get1(args) THEN CargoKani(remove1(args))
        ELSE IF Some(<<"kani">>) = exe THEN Standalone
        ELSE IF Some(<<"cargo-kani">>) = exe THEN CargoKani(args)
        ELSE Standalone


(***************************************************************************)
(* Harnesses, outcomes and the checker environment.                        *)
(***************************************************************************)
\* project.get_all_harnesses() of a project with n harnesses, in discovery
\* order.  Harnesses 1 and 3 share the pretty_name "a"; harness 2 names its
\* solver, the others leave it to the default.
AllHarnesses(n) ==
    [ k \in 1..n |->
        [ pretty_name  |-> IF k % 2 = 1 THEN "a" ELSE "b",
          mangled_name |-> k,
          solver       |-> IF k = 2 THEN Some("Kissat") ELSE None ] ]

RECURSIVE Subsequences(_)
Subsequences(s) ==
    IF s = << >> THEN { << >> }
    ELSE LET rest == Subsequences(Tail(s))
         IN  rest \cup { << Head(s) >> \o t : t \in rest }

SolverStatistics == [ vccs_generated |-> 2, vccs_remaining |-> 1 ]

\* What get_cbmc_info can answer when the query succeeds.
CbmcInfos ==
    { [ version |-> "6.7.1", os_info |-> "linux" ],
      [ version |-> "6.8.0", os_info |-> "macos" ] }

\* The ways one invocation of the external checker can end, with the
\* status, wall time (microseconds) and statistics the runner records.
Behaviours == { "spawn_failure", "crash", "exit_nonzero", "exit_zero" }

Outcome(h, b) ==
    [ harness    |-> h,
      status     |-> IF b = "exit_zero" THEN "Success" ELSE "Failure",
      runtime    |-> IF b = "spawn_failure" THEN 0
                     ELSE IF b = "exit_zero" THEN 125000 ELSE 2000000,
      cbmc_stats |-> IF b \in { "exit_zero", "exit_nonzero" }
                     THEN Some(SolverStatistics) ELSE None ]

\* The wall times the report's formatting is tried on (microseconds).
ReportRuntimes == { 499, 125000, 2000000, 12345678 }

(***************************************************************************)
(* The report document (JsonHandler).                                      *)
(***************************************************************************)
JsonHandler_new ==
    [ harnesses |-> << >>, cbmc |-> << >>, progress |-> << >>, coverage |-> None ]

add_harness_detail(doc, section, record) ==
    [ doc EXCEPT ![section] = Append(@, record) ]

add_item(doc, key, value) ==
    [ doc EXCEPT ![key] = Some(value) ]

(***************************************************************************)
(* format!("{:.3}s", runtime.as_secs_f64())                                *)
(***************************************************************************)
Digit(d) == << "0", "1", "2", "3", "4", "5", "6", "7", "8", "9" >>[d + 1]

RECURSIVE Decimal(_)
Decimal(n) ==
    IF n < 10 THEN << Digit(n) >> ELSE Append(Decimal(n \div 10), Digit(n % 10))

\* The value is rounded to the nearest thousandth of a second.  A value
\* exactly half way between two thousandths is rounded as its binary
\* floating-point representation falls; no runtime of the model is one.
FormatRuntimeTwoDecimals(us) ==
    LET cs == (us + 5000) \div 10000
    IN  Decimal(cs \div 100) \o << "." >>
        \o << Digit((cs \div 10) % 10), Digit(cs % 10) >> \o << "s" >>

FormatRuntime(us) ==
    LET ms == (us + 500) \div 1000
    IN  Decimal(ms \div 1000) \o << "." >>
        \o << Digit((ms \div 100) % 10), Digit((ms \div 10) % 10), Digit(ms % 10) >>
        \o << "s" >>

(***************************************************************************)
(* The two records verify_project builds for a harness.                    *)
(***************************************************************************)
\* results.iter().find(|r| r.harness.pretty_name == h.pretty_name)
find(rs, h) ==
    LET hits == { k \in 1..Len(rs) : rs[k].harness.pretty_name = h.pretty_name }
    IN  IF hits = { } THEN None
        ELSE Some(rs[CHOOSE k \in hits : \A m \in hits : k <= m])

harness_record(h) ==
    [ pretty_name  |-> h.pretty_name,
      mangled_name |-> h.mangled_name,
      solver       |-> h.solver ]

SolverOrDefault(h) == IF h.solver = None THEN "Cadical" ELSE h.solver[1]

summary(r) ==
    [ total  |-> 1,
      status |-> IF r.status = "Success" THEN "completed" ELSE "failed" ]

cbmc_metadata_placeholder(info_opt, h) ==
    [ version   |-> IF info_opt = None THEN Some("unknown") ELSE Some(info_opt[1].version),
      os_info   |-> IF info_opt = None THEN Some("unknown") ELSE Some(info_opt[1].os_info),
      solver    |-> SolverOrDefault(h),
      verbosity |-> 9 ]

cbmc_metadata(info_opt, h) ==
    [ version   |-> IF info_opt = None THEN None ELSE Some(info_opt[1].version),
      os_info   |-> IF info_opt = None THEN None ELSE Some(info_opt[1].os_info),
      solver    |-> SolverOrDefault(h),
      verbosity |-> 9 ]

summary_field(harness_result) ==
    IF harness_result = None THEN None ELSE Some(summary(harness_result[1]))

timing_field_defaults_to_zero(harness_result) ==
    IF harness_result = None THEN Some([ cbmc_runtime |-> FormatRuntime(0) ])
    ELSE Some([ cbmc_runtime |-> FormatRuntime(harness_result[1].runtime) ])

timing_field(harness_result) ==
    IF harness_result = None THEN None
    ELSE Some([ cbmc_runtime |-> FormatRuntime(harness_result[1].runtime) ])

cbmc_stats_field(harness_result) ==
    IF harness_result = None THEN None ELSE harness_result[1].cbmc_stats

cbmc_record(h, rs, info_opt) ==
    LET harness_result == find(rs, h)
    IN  [ harness_id    |-> h.pretty_name,
          cbmc_metadata |-> cbmc_metadata(info_opt, h),
          Configuration |-> [ solver |-> SolverOrDefault(h), verbosity |-> 9 ],
          summary       |-> summary_field(harness_result),
          timing        |-> timing_field(harness_result),
          cbmc_stats    |-> cbmc_stats_field(harness_result) ]

(***************************************************************************)
(* The process: main, the two mode mains and verify_project.               *)
(***************************************************************************)
Ok == Some("Ok")
Err == Some("Err")

Call(name, arg) == [ call |-> name, arg |-> arg ]
Log(name, arg) == Append(trace, Call(name, arg))

\* The command lines the process is started with: cargo kani, kani,
\* cargo-kani called directly, and no arguments at all.
StartArgvs ==
    { << <<"bin", "cargo-kani">>, <<"kani">>, <<"foo">> >>,
      << <<"bin", "kani">>, <<"foo">> >>,
      << <<"cargo-kani">> >>,
      << >> }

Idle ==
    /\ invocation = None
    /\ command = "None"
    /\ session = None
    /\ project = << >>
    /\ harnesses = << >>
    /\ results = << >>
    /\ cbmc_info_opt = None
    /\ handler = JsonHandler_new
    /\ i = 0
    /\ result = None
    /\ exit_code = None
    /\ trace = << >>

WrapperIdle ==
    /\ w_pc = "idle"
    /\ options = None
    /\ path_exists = FALSE
    /\ cmd = None
    /\ spawns = 0
    /\ output = None
    /\ verify_result = None

Init ==
    /\ pc = "main"
    /\ argv \in StartArgvs
    /\ Idle
    /\ WrapperIdle

\* An error propagated by `?` (or returned) up to main.
Propagate(name) ==
    /\ result' = Err
    /\ pc' = "main_exit"
    /\ trace' = Log(name, "Err")

\* main, line 51 to 56: classify the invocation and enter the mode's main.
main_route ==
    /\ pc = "main"
    /\ invocation' = Some(determine_invocation_type(argv))
    /\ pc' = IF invocation'[1].type = "CargoKani" THEN "cargokani_main"
             ELSE "standalone_main"
    /\ UNCHANGED << argv, command, session, project, harnesses, results,
                    cbmc_info_opt, handler, i, result, exit_code, trace >>
    /\ UNCHANGED wvars

ExitCodeAlwaysSuccess == "SUCCESS"

ExitCode == IF result = Err THEN "FAILURE" ELSE "SUCCESS"

\* main, line 58 to 66.
main_exit ==
    /\ pc = "main_exit"
    /\ exit_code' = Some(ExitCode)
    /\ pc' = "exited"
    /\ UNCHANGED << argv, invocation, command, session, project, harnesses,
                    results, cbmc_info_opt, handler, i, result, trace >>
    /\ UNCHANGED wvars

Subcommands == { "Autoharness", "List", "Playback" }

\* cargokani_main, line 71 to 75: join_args, then the parsed command.
cargokani_main_args ==
    /\ pc = "cargokani_main"
    /\ \/ /\ Propagate("join_args")
          /\ UNCHANGED command
       \/ /\ \E c \in Subcommands \cup { "None" } : command' = c
          /\ pc' = "cargokani_command"
          /\ UNCHANGED << result, trace >>
    /\ UNCHANGED << argv, invocation, session, project, harnesses, results,
                    cbmc_info_opt, handler, i, exit_code >>
    /\ UNCHANGED wvars

\* KaniSession::new(args.verify_opts)?
session_new(next) ==
    \/ Propagate("KaniSession::new") /\ UNCHANGED session
    \/ /\ \E oc \in BOOLEAN, cov \in BOOLEAN :
            session' = Some([ only_codegen |-> oc, coverage |-> cov ])
       /\ pc' = next
       /\ UNCHANGED << result, trace >>

\* A subcommand's own main, whose result is returned as it is.
subcommand_return ==
    /\ \E r \in { Ok, Err } : result' = r
    /\ pc' = "main_exit"
    /\ trace' = Log(command, result'[1])

\* cargokani_main, line 75 to 86.
cargokani_main_command ==
    /\ pc = "cargokani_command"
    /\ \/ /\ command \in Subcommands
          /\ subcommand_return
          /\ UNCHANGED session
       \/ /\ command = "None"
          /\ session_new("cargokani_project")
    /\ UNCHANGED << argv, invocation, command, project, harnesses, results,
                    cbmc_info_opt, handler, i, exit_code >>
    /\ UNCHANGED wvars

\* `if session.args.only_codegen { Ok(()) } else { verify_project(..) }`
only_codegen_or_verify == IF session[1].only_codegen THEN "return_ok" ELSE "verify_project"

\* The project is built, then line 93 / line 129.
project_build(name) ==
    /\ \/ Propagate(name) /\ UNCHANGED project
       \/ /\ project' = AllHarnesses(MaxHarnesses)
          /\ IF only_codegen_or_verify = "return_ok"
             THEN result' = Ok /\ pc' = "main_exit"
             ELSE result' = result /\ pc' = "verify_project"
          /\ trace' = Log(name, "Ok")
    /\ UNCHANGED << argv, invocation, command, session, harnesses, results,
                    cbmc_info_opt, handler, i, exit_code >>

\* cargokani_main, line 92 and 93.
cargokani_main_project ==
    /\ pc = "cargokani_project"
    /\ project_build("cargo_project")
    /\ UNCHANGED wvars

\* standalone_main, line 98 to 101.
standalone_main_args ==
    /\ pc = "standalone_main"
    /\ \E c \in Subcommands \cup { "VerifyStd", "None" } : command' = c
    /\ pc' = "standalone_command"
    /\ UNCHANGED << argv, invocation, session, project, harnesses, results,
                    cbmc_info_opt, handler, i, result, exit_code, trace >>
    /\ UNCHANGED wvars

\* standalone_main, line 101 to 128, up to the session.
standalone_main_command ==
    /\ pc = "standalone_command"
    /\ \/ /\ command \in Subcommands
          /\ subcommand_return
          /\ UNCHANGED session
       \/ /\ command \in { "VerifyStd", "None" }
          /\ session_new("standalone_project")
    /\ UNCHANGED << argv, invocation, command, project, harnesses, results,
                    cbmc_info_opt, handler, i, exit_code >>
    /\ UNCHANGED wvars

\* standalone_main, line 115 / 124, and line 129.
standalone_main_project ==
    /\ pc = "standalone_project"
    /\ project_build(IF command = "VerifyStd" THEN "std_project"
                     ELSE "standalone_project")
    /\ UNCHANGED wvars


\* verify_project, line 135 to 138.
verify_project_targets ==
    /\ pc = "verify_project"
    /\ handler' = JsonHandler_new
    /\ \/ Propagate("determine_targets") /\ UNCHANGED harnesses
       \/ /\ \E selected \in Subsequences(project) : harnesses' = selected
          /\ pc' = "check_all_harnesses"
          /\ trace' = Log("determine_targets", "Ok")
          /\ UNCHANGED result
    /\ UNCHANGED << argv, invocation, command, session, project, results,
                    cbmc_info_opt, i, exit_code >>
    /\ UNCHANGED wvars

RunnerStopsAtFailure ==
    \/ Len(results) = Len(harnesses)
    \/ Len(results) > 0 /\ results[Len(results)].status = "Failure"

\* The runner has an outcome for every harness it was given.
RunnerDone == Len(results) = Len(harnesses)

\* verify_project, line 142: one iteration of check_all_harnesses.  The
\* checker is run on the next harness, however it ends an outcome is
\* recorded, and the outcome is pushed into the report sink; only a failed
\* push ends the run.
check_harness ==
    /\ pc = "check_all_harnesses"
    /\ ~RunnerDone
    /\ \E b \in Behaviours :
          LET h == harnesses[Len(results) + 1]
              outcome == Outcome(h, b)
          IN  \/ /\ results' = Append(results, outcome)
                 /\ handler' = add_harness_detail(handler, "progress",
                                  [ harness_id |-> h.pretty_name,
                                    status |-> outcome.status ])
                 /\ trace' = trace \o << Call("check_harness", b),
                                         Call("sink_push", "Ok") >>
                 /\ UNCHANGED << pc, result >>
              \/ /\ result' = Err
                 /\ pc' = "main_exit"
                 /\ trace' = trace \o << Call("check_harness", b),
                                         Call("sink_push", "Err") >>
                 /\ UNCHANGED << results, handler >>
    /\ UNCHANGED << argv, invocation, command, session, project, harnesses,
                    cbmc_info_opt, i, exit_code >>
    /\ UNCHANGED wvars

\* verify_project, line 142: check_all_harnesses returns Ok(results).
check_all_harnesses_return ==
    /\ pc = "check_all_harnesses"
    /\ RunnerDone
    /\ pc' = "get_cbmc_info"
    /\ trace' = Log("check_all_harnesses", "Ok")
    /\ UNCHANGED << argv, invocation, command, session, project, harnesses,
                    results, cbmc_info_opt, handler, i, result, exit_code >>
    /\ UNCHANGED wvars

\* verify_project, line 145: session.get_cbmc_info().ok()
get_cbmc_info ==
    /\ pc = "get_cbmc_info"
    /\ \E r \in { None } \cup { Some(c) : c \in CbmcInfos } :
          /\ cbmc_info_opt' = r
          /\ trace' = Log("get_cbmc_info", IF r = None THEN "Err" ELSE "Ok")
    /\ pc' = "harnesses_loop"
    /\ i' = 1
    /\ UNCHANGED << argv, invocation, command, session, project, harnesses,
                    results, handler, result, exit_code >>
    /\ UNCHANGED wvars

\* verify_project, line 147 to 176: the loop that adds the metadata records.
add_harness_metadata ==
    /\ pc = "harnesses_loop"
    /\ IF i <= Len(harnesses)
       THEN /\ handler' = add_harness_detail(handler, "harnesses",
                                             harness_record(harnesses[i]))
            /\ i' = i + 1
            /\ trace' = Log("add_harness_detail", "harnesses")
            /\ UNCHANGED pc
       ELSE /\ pc' = "cbmc_loop"
            /\ i' = 1
            /\ UNCHANGED << handler, trace >>
    /\ UNCHANGED << argv, invocation, command, session, project, harnesses,
                    results, cbmc_info_opt, result, exit_code >>
    /\ UNCHANGED wvars

InfoTakenByRead(info_opt) == None

\* cbmc_info_opt.as_ref() borrows the value, which stays as it is.
InfoAfterRead(info_opt) == info_opt

\* verify_project, line 178 to 227: the loop that adds the result records.
add_cbmc_record ==
    /\ pc = "cbmc_loop"
    /\ IF i <= Len(harnesses)
       THEN /\ handler' = add_harness_detail(handler, "cbmc",
                              cbmc_record(harnesses[i], results, cbmc_info_opt))
            /\ cbmc_info_opt' = InfoAfterRead(cbmc_info_opt)
            /\ i' = i + 1
            /\ trace' = Log("add_harness_detail", "cbmc")
            /\ UNCHANGED pc
       ELSE /\ pc' = "coverage"
            /\ i' = 0
            /\ UNCHANGED << handler, cbmc_info_opt, trace >>
    /\ UNCHANGED << argv, invocation, command, session, project, harnesses,
                    results, result, exit_code >>
    /\ UNCHANGED wvars

coverage_item_always_disabled == [ enabled |-> FALSE ]

\* json!({"enabled": true}) in the coverage branch, false in the other.
coverage_item == [ enabled |-> session[1].coverage ]

save_coverage_error_swallowed == "export"

\* The `?` of line 243 and 244 returns from verify_project.
save_coverage_error_pc == "main_exit"

save_coverage_fails(name, before) ==
    /\ result' = IF save_coverage_error_pc = "main_exit" THEN Err ELSE result
    /\ pc' = save_coverage_error_pc
    /\ trace' = trace \o before \o << Call(name, "Err") >>
    /\ UNCHANGED handler

\* verify_project, line 230 to 249.
coverage ==
    /\ pc = "coverage"
    /\ IF session[1].coverage
       THEN \/ save_coverage_fails("save_coverage_metadata", << >>)
            \/ save_coverage_fails("save_coverage_results",
                                   << Call("save_coverage_metadata", "Ok") >>)
            \/ /\ handler' = add_item(handler, "coverage", coverage_item)
               /\ trace' = trace \o << Call("save_coverage_metadata", "Ok"),
                                       Call("save_coverage_results", "Ok"),
                                       Call("add_item", "coverage") >>
               /\ pc' = "export"
               /\ UNCHANGED result
       ELSE /\ handler' = add_item(handler, "coverage", coverage_item)
            /\ trace' = Log("add_item", "coverage")
            /\ pc' = "export"
            /\ UNCHANGED result
    /\ UNCHANGED << argv, invocation, command, session, project, harnesses,
                    results, cbmc_info_opt, i, exit_code >>
    /\ UNCHANGED wvars

\* verify_project, line 251: handler.export()?
export ==
    /\ pc = "export"
    /\ \/ Propagate("export")
       \/ /\ trace' = Log("export", "Ok")
          /\ pc' = "print_final_summary"
          /\ UNCHANGED result
    /\ UNCHANGED << argv, invocation, command, session, project, harnesses,
                    results, cbmc_info_opt, handler, i, exit_code >>
    /\ UNCHANGED wvars

\* verify_project, line 252: the summary's result is verify_project's.
print_final_summary ==
    /\ pc = "print_final_summary"
    /\ \E r \in { Ok, Err } : result' = r
    /\ trace' = Log("print_final_summary", result'[1])
    /\ pc' = "main_exit"
    /\ UNCHANGED << argv, invocation, command, session, project, harnesses,
                    results, cbmc_info_opt, handler, i, exit_code >>
    /\ UNCHANGED wvars

Next ==
    \/ main_route
    \/ cargokani_main_args
    \/ cargokani_main_command
    \/ cargokani_main_project
    \/ standalone_main_args
    \/ standalone_main_command
    \/ standalone_main_project
    \/ verify_project_targets
    \/ check_harness
    \/ check_all_harnesses_return
    \/ get_cbmc_info
    \/ add_harness_metadata
    \/ add_cbmc_record
    \/ coverage
    \/ export
    \/ print_final_summary
    \/ main_exit

Spec == Init /\ [][Next]_vars

(***************************************************************************)
(* The router on its own, over every argument list up to MaxArgs.          *)
(***************************************************************************)
RouterInit ==
    /\ pc = "main"
    /\ argv \in SeqsUpTo(Arguments, MaxArgs)
    /\ Idle
    /\ WrapperIdle

RouterNext == main_route

SpecRouter == RouterInit /\ [][RouterNext]_vars

(***************************************************************************)
(* The report-building part of verify_project, from line 145 on, over      *)
(* every list of outcomes in which each harness has one outcome or none.   *)
(***************************************************************************)
ReportOutcomes(h) ==
    { [ harness |-> h, status |-> st, runtime |-> rt, cbmc_stats |-> cs ] :
        st \in { "Success", "Failure" }, rt \in ReportRuntimes,
        cs \in { None, Some(SolverStatistics) } }

RECURSIVE ReportResults(_)
ReportResults(hs) ==
    IF hs = << >> THEN { << >> }
    ELSE LET rest == ReportResults(Tail(hs))
         IN  rest \cup { << o >> \o t : o \in ReportOutcomes(Head(hs)), t \in rest }

ReportInit ==
    /\ pc = "get_cbmc_info"
    /\ argv = << >>
    /\ invocation = Some(Standalone)
    /\ command = "None"
    /\ \E cov \in BOOLEAN : session = Some([ only_codegen |-> FALSE, coverage |-> cov ])
    /\ project = AllHarnesses(MaxReportHarnesses)
    /\ harnesses = project
    /\ results \in ReportResults(harnesses)
    /\ cbmc_info_opt = None
    /\ handler = JsonHandler_new
    /\ i = 0
    /\ result = None
    /\ exit_code = None
    /\ trace = << >>
    /\ WrapperIdle

ReportNext ==
    \/ get_cbmc_info
    \/ add_harness_metadata
    \/ add_cbmc_record
    \/ coverage
    \/ export
    \/ print_final_summary

SpecReport == ReportInit /\ [][ReportNext]_vars


(***************************************************************************)
(* Properties.                                                             *)
(***************************************************************************)
Called(name, arg) == \E k \in 1..Len(trace) : trace[k] = Call(name, arg)
CallsOf(name) == SelectSeq(trace, LAMBDA e : e.call = name)
LastCall == trace[Len(trace)]

\* C1: check_all_harnesses returns exactly one outcome per input harness,
\* the k-th outcome belonging to the k-th harness, whatever way each
\* invocation of the checker ends; an invocation that does not exit with
\* success is recorded as a Failure outcome, and the harnesses after it are
\* still run: the runner ends early only when a push into the report sink
\* fails.
C1_OneOutcomePerHarness ==
    LET checks == CallsOf("check_harness")
        returned == Called("check_all_harnesses", "Ok")
    IN  /\ (pc = "check_all_harnesses" \/ returned) =>
              /\ Len(results) <= Len(harnesses)
              /\ Len(checks) = Len(results)
              /\ \A k \in 1..Len(results) :
                    /\ results[k].harness = harnesses[k]
                    /\ checks[k].arg # "exit_zero" => results[k].status = "Failure"
        /\ returned => Len(results) = Len(harnesses)
        /\ ( /\ Called("determine_targets", "Ok")
             /\ pc # "check_all_harnesses"
             /\ ~Called("sink_push", "Err") ) => returned

C1_Witness ==
    /\ Called("check_all_harnesses", "Ok")
    /\ Len(harnesses) = 3
    /\ CallsOf("check_harness")[1].arg = "spawn_failure"
    /\ CallsOf("check_harness")[2].arg = "crash"
    /\ results[1].status = "Failure"
    /\ results[3].status = "Success"

IsToken(arg, token) == arg = << token >>
BasenameIs(args, token) ==
    /\ Len(args) >= 1
    /\ args[1] # << >>
    /\ args[1][Len(args[1])] = token
SecondIsKani(args) == Len(args) >= 2 /\ IsToken(args[2], "kani")

\* C2: determine_invocation_type answers for every argument list, in this
\* order of priority: (1) the element at index 1 is "kani": wrapped mode,
\* whatever the basename of element 0; (2) else the basename of element 0 is
\* "kani": direct mode; (3) else that basename is "cargo-kani": wrapped mode;
\* (4) else, and for the empty list, direct mode.
C2_RouterPriority ==
    /\ pc = "main" => invocation = None
    /\ pc # "main" =>
          /\ invocation # None
          /\ invocation[1].type =
                IF SecondIsKani(argv) THEN "CargoKani"
                ELSE IF BasenameIs(argv, "kani") THEN "Standalone"
                ELSE IF BasenameIs(argv, "cargo-kani") THEN "CargoKani"
                ELSE "Standalone"
          /\ argv = << >> => invocation[1].type = "Standalone"

C2_Witness ==
    /\ argv = << <<"bin", "kani">>, <<"kani">> >>
    /\ invocation # None
    /\ invocation[1].type = "CargoKani"

\* C3: in wrapped mode the forwarded arguments are the input list without
\* its element at index 1 when that element is "kani" (every other element
\* kept, in order, later "kani"s included), and the input list unchanged
\* when the mode was chosen by the basename "cargo-kani".
C3_ForwardedArguments ==
    (invocation # None /\ invocation[1].type = "CargoKani") =>
        LET out == invocation[1].args
        IN  IF SecondIsKani(argv)
            THEN /\ Len(out) = Len(argv) - 1
                 /\ out[1] = argv[1]
                 /\ \A k \in 2..Len(out) : out[k] = argv[k + 1]
            ELSE /\ BasenameIs(argv, "cargo-kani")
                 /\ out = argv

C3_Witness ==
    /\ argv = << <<"foo">>, <<"kani">>, <<"kani">> >>
    /\ invocation = Some(CargoKani(<< <<"foo">>, <<"kani">> >>))

HasOutcome(h) ==
    \E k \in 1..Len(results) : results[k].harness.pretty_name = h.pretty_name

\* C4: every selected harness gets a metadata record in "harnesses" and a
\* separate result record in "cbmc", matched by pretty_name / harness_id
\* alone; a harness with no outcome of its pretty_name in the results keeps
\* its complete metadata record, and its result record's summary, timing
\* and cbmc_stats are null.
C4_PeerRecords ==
    /\ Len(handler.harnesses) <= Len(harnesses)
    /\ Len(handler.cbmc) <= Len(harnesses)
    /\ pc \in { "coverage", "export", "print_final_summary", "main_exit" } =>
          /\ Len(handler.harnesses) = Len(harnesses)
          /\ Len(handler.cbmc) = Len(harnesses)
    /\ \A k \in 1..Len(handler.harnesses) :
          /\ handler.harnesses[k].pretty_name = harnesses[k].pretty_name
          /\ handler.harnesses[k].mangled_name = harnesses[k].mangled_name
          /\ handler.harnesses[k].solver = harnesses[k].solver
          /\ DOMAIN handler.harnesses[k] = { "pretty_name", "mangled_name", "solver" }
    /\ \A k \in 1..Len(handler.cbmc) :
          /\ handler.cbmc[k].harness_id = harnesses[k].pretty_name
          /\ Len(handler.harnesses) >= k
          /\ ~HasOutcome(harnesses[k]) =>
                /\ handler.cbmc[k].summary = None
                /\ handler.cbmc[k].timing = None
                /\ handler.cbmc[k].cbmc_stats = None
          /\ HasOutcome(harnesses[k]) =>
                /\ handler.cbmc[k].summary # None
                /\ handler.cbmc[k].timing # None

C4_Witness ==
    /\ pc = "export"
    /\ Len(results) = 1
    /\ results[1].harness = harnesses[2]
    /\ handler.harnesses[1].pretty_name = "a"
    /\ handler.cbmc[1].harness_id = "a"
    /\ handler.cbmc[1].summary = None
    /\ handler.cbmc[2].summary # None

\* C5: when export is called the document holds, in "harnesses" and in
\* "cbmc", exactly one record per selected harness in the order
\* determine_targets returned them (harnesses of one pretty_name each have
\* theirs), and "coverage" is {enabled: b}, b being whether coverage was
\* requested for the session.
C5_DocumentAtExport ==
    (pc = "export" \/ Called("export", "Ok") \/ Called("export", "Err")) =>
        /\ Len(handler.harnesses) = Len(harnesses)
        /\ Len(handler.cbmc) = Len(harnesses)
        /\ \A k \in 1..Len(harnesses) :
              /\ handler.harnesses[k].pretty_name = harnesses[k].pretty_name
              /\ handler.harnesses[k].mangled_name = harnesses[k].mangled_name
              /\ handler.cbmc[k].harness_id = harnesses[k].pretty_name
        /\ handler.coverage = Some([ enabled |-> session[1].coverage ])

C5_Witness ==
    /\ pc = "export"
    /\ Len(harnesses) = 3
    /\ harnesses[1].pretty_name = harnesses[3].pretty_name
    /\ handler.harnesses[3].mangled_name = 3
    /\ session[1].coverage
    /\ handler.coverage = Some([ enabled |-> TRUE ])

PropagatingCalls ==
    { "save_coverage_metadata", "save_coverage_results", "export",
      "print_final_summary" }

\* C6: a failed get_cbmc_info does not end verify_project: the run goes on
\* to the report loops and to export, every harness's cbmc record has a null
\* version and os_info and its other fields as usual; after a successful
\* query every record carries the version and OS the query returned.
C6_EnvironmentBestEffort ==
    /\ Called("get_cbmc_info", "Err") =>
          /\ cbmc_info_opt = None
          /\ LastCall.call = "get_cbmc_info" =>
                (pc \in { "harnesses_loop", "cbmc_loop", "coverage" } /\ result = None)
          /\ result = Err => (LastCall.arg = "Err" /\ LastCall.call \in PropagatingCalls)
          /\ pc \in { "coverage", "export" } => Len(handler.cbmc) = Len(harnesses)
          /\ \A k \in 1..Len(handler.cbmc) :
                /\ handler.cbmc[k].cbmc_metadata.version = None
                /\ handler.cbmc[k].cbmc_metadata.os_info = None
                /\ handler.cbmc[k].cbmc_metadata.verbosity = 9
                /\ handler.cbmc[k].cbmc_metadata.solver \in { "Cadical", "Kissat" }
                /\ handler.cbmc[k].summary # None
                /\ handler.cbmc[k].timing # None
    /\ Called("get_cbmc_info", "Ok") =>
          /\ cbmc_info_opt # None
          /\ \A k \in 1..Len(handler.cbmc) :
                /\ handler.cbmc[k].cbmc_metadata.version = Some(cbmc_info_opt[1].version)
                /\ handler.cbmc[k].cbmc_metadata.os_info = Some(cbmc_info_opt[1].os_info)

C6_Witness ==
    /\ pc = "export"
    /\ Called("get_cbmc_info", "Err")
    /\ Len(handler.cbmc) = 3
    /\ handler.cbmc[3].cbmc_metadata.version = None

Digits == { Digit(d) : d \in 0..9 }
DigitValue(c) == CHOOSE d \in 0..9 : Digit(d) = c

RECURSIVE ValueOf(_)
ValueOf(ds) ==
    IF ds = << >> THEN 0
    ELSE 10 * ValueOf(SubSeq(ds, 1, Len(ds) - 1)) + DigitValue(ds[Len(ds)])

\* One or more digits, a point, three digits and an "s".
SecondsWithThreeDecimals(str) ==
    /\ Len(str) >= 6
    /\ str[Len(str)] = "s"
    /\ str[Len(str) - 4] = "."
    /\ \A k \in (1..(Len(str) - 5)) \cup ((Len(str) - 3)..(Len(str) - 1)) :
          str[k] \in Digits

\* The thousandths of a second such a string states.
Thousandths(str) ==
    1000 * ValueOf(SubSeq(str, 1, Len(str) - 5))
        + ValueOf(SubSeq(str, Len(str) - 3, Len(str) - 1))

UniqueNames ==
    \A j, k \in 1..Len(harnesses) :
        harnesses[j].pretty_name = harnesses[k].pretty_name => j = k

\* C7: the cbmc record of a harness whose outcome is found by pretty_name
\* has summary {total: 1, status: "completed"} for a Success outcome and
\* {total: 1, status: "failed"} for a Failure, and its timing.cbmc_runtime
\* is that outcome's runtime in seconds, to the nearest thousandth, written
\* with exactly three decimals and an "s" (125 ms: "0.125s", 2000 ms:
\* "2.000s"); with unique pretty_names the outcome found is the harness's
\* own, so no other harness's status or runtime enters its record.
C7_SummaryAndTiming ==
    \A k \in 1..Len(handler.cbmc) :
        \A n \in 1..Len(results) :
            ( /\ results[n].harness.pretty_name = harnesses[k].pretty_name
              /\ \A m \in 1..(n - 1) :
                    results[m].harness.pretty_name # harnesses[k].pretty_name ) =>
                LET rec == handler.cbmc[k]
                    str == rec.timing[1].cbmc_runtime
                IN  /\ rec.summary # None
                    /\ rec.summary[1].total = 1
                    /\ results[n].status = "Success" => rec.summary[1].status = "completed"
                    /\ results[n].status = "Failure" => rec.summary[1].status = "failed"
                    /\ rec.timing # None
                    /\ SecondsWithThreeDecimals(str)
                    /\ 1000 * Thousandths(str) - results[n].runtime \in -500..500
                    /\ results[n].runtime = 125000 => str = << "0", ".", "1", "2", "5", "s" >>
                    /\ results[n].runtime = 2000000 => str = << "2", ".", "0", "0", "0", "s" >>
                    /\ UniqueNames => results[n].harness = harnesses[k]

C7_Witness ==
    /\ pc = "export"
    /\ Len(results) = 2
    /\ results[1].status = "Success" /\ results[1].runtime = 125000
    /\ results[2].status = "Failure" /\ results[2].runtime = 2000000
    /\ handler.cbmc[1].summary = Some([ total |-> 1, status |-> "completed" ])
    /\ handler.cbmc[2].summary = Some([ total |-> 1, status |-> "failed" ])
    /\ handler.cbmc[1].timing[1].cbmc_runtime = << "0", ".", "1", "2", "5", "s" >>
    /\ handler.cbmc[2].timing[1].cbmc_runtime = << "2", ".", "0", "0", "0", "s" >>

IsAdd(e) == e.call \in { "add_harness_detail", "add_item", "sink_push" }
Exports == { k \in 1..Len(trace) : trace[k].call = "export" }
StageFailed ==
    \/ Called("determine_targets", "Err")
    \/ Called("sink_push", "Err")
    \/ Called("save_coverage_metadata", "Err")
    \/ Called("save_coverage_results", "Err")
VerifyProjectReturned ==
    /\ Called("determine_targets", "Ok") \/ Called("determine_targets", "Err")
    /\ pc \in { "main_exit", "exited" }

\* C8: verify_project calls export at most once and adds nothing to the
\* document after it; when it has returned, export was called exactly once
\* if target selection, the harness run and the saving of coverage (when
\* requested) all succeeded, and not at all if one of them failed.
C8_ExportOnceAtTheEnd ==
    /\ Cardinality(Exports) <= 1
    /\ \A k \in Exports : \A j \in (k + 1)..Len(trace) : ~IsAdd(trace[j])
    /\ StageFailed => Exports = { }
    /\ VerifyProjectReturned => (Cardinality(Exports) = 1 <=> ~StageFailed)

C8_Witness ==
    /\ pc = "exited"
    /\ Called("export", "Ok")
    /\ Called("save_coverage_results", "Ok")
    /\ Len(harnesses) = 2

Absorbed == { "get_cbmc_info", "check_harness" }
ErrorPropagated ==
    \E k \in 1..Len(trace) : trace[k].arg = "Err" /\ trace[k].call \notin Absorbed
VerifyProjectEntered ==
    \E k \in 1..Len(trace) : trace[k].call = "determine_targets"

\* C9: the process exits with the success code exactly when no stage of the
\* selected mode propagated an error (argument joining, a subcommand's main,
\* session creation, the project build, target selection, a failed push
\* into the report sink, coverage saving, export, the final summary); with
\* only_codegen set verification is not entered, and the exit code is
\* success once the project is built.
C9_ExitCode ==
    /\ pc = "exited" =>
          /\ exit_code # None
          /\ exit_code = Some("SUCCESS") <=> ~ErrorPropagated
          /\ exit_code = Some("FAILURE") <=> ErrorPropagated
    /\ (session # None /\ session[1].only_codegen) =>
          /\ ~VerifyProjectEntered
          /\ (pc = "exited" /\ project # << >>) => exit_code = Some("SUCCESS")

C9_Witness ==
    /\ pc = "exited"
    /\ exit_code = Some("FAILURE")
    /\ Called("export", "Err")
    /\ invocation[1].type = "CargoKani"

Queries == { k \in 1..Len(trace) : trace[k].call = "get_cbmc_info" }
RunnerCalls == { "check_harness", "check_all_harnesses" }

\* C10 as stated: the environment query happens before the harness runner
\* starts iterating over the harnesses.
C10_QueryBeforeRunner ==
    \A k \in Queries : \A j \in 1..(k - 1) : trace[j].call \notin RunnerCalls

\* C10, amended: the environment info is resolved at most once per run, by
\* a query made after the harness runner has returned and before the first
\* per-harness record is added to "harnesses" or "cbmc"; from then on its
\* result is only read, neither queried again nor changed.
C10_QueryOnceBeforeReportLoops ==
    /\ [] ( /\ Cardinality(Queries) <= 1
            /\ \A k \in Queries :
                  /\ \E j \in 1..(k - 1) : trace[j] = Call("check_all_harnesses", "Ok")
                  /\ \A j \in 1..(k - 1) : trace[j].call # "add_harness_detail"
            /\ (\E j \in 1..Len(trace) : trace[j].call = "add_harness_detail")
                  => Queries # { }
            /\ Queries = { } => cbmc_info_opt = None )
    /\ [][ Queries # { } => cbmc_info_opt' = cbmc_info_opt ]_vars

C10_Witness ==
    /\ pc = "export"
    /\ Called("get_cbmc_info", "Ok")
    /\ cbmc_info_opt # None
    /\ Len(handler.cbmc) = 3
    /\ Len(CallsOf("check_harness")) = 3

(***************************************************************************)
(* KaniWrapper::verify (src/kani-mcp-server/src/kani_wrapper.rs).          *)
(*                                                                         *)
(* The child's output is a sequence of lines.  A line is a record          *)
(* [kind, name, status, n, m]: a harness result line (name, status, n      *)
(* checks passed, m checks failed), a failed-check line (name is its       *)
(* description, n its line number or 0 for none), a verification-time      *)
(* line (n seconds) or a line that is none of these.                       *)
(***************************************************************************)
Line(kind, name, status, n, m) ==
    [ kind |-> kind, name |-> name, status |-> status, n |-> n, m |-> m ]

JunkLine == Line("junk", "warning: error ignored", "", 0, 0)
EmptyLine == Line("junk", "", "", 0, 0)

Lines ==
    { Line("harness", "h1", "SUCCESS", 2, 0),
      Line("harness", "h2", "FAILED", 1, 1),
      Line("check", "assertion failed", "", 7, 0),
      Line("time", "", "", 3, 0),
      JunkLine }

\* The KaniOptions verify is tried on.
AllOptions ==
    [ harness           : { None, Some("h1") },
      tests             : BOOLEAN,
      output_format     : { "", "terse" },
      enable_unstable   : { << >>, << "f" >> },
      concrete_playback : BOOLEAN,
      coverage          : BOOLEAN,
      extra_args        : { << >>, << "-v" >> } ]

\* A sequence of sequences, flattened.
RECURSIVE Flatten(_)
Flatten(ss) == IF ss = << >> THEN << >> ELSE Head(ss) \o Flatten(Tail(ss))

\* verify, line 114 to 154: the arguments of the command.
BuildCommand(o) ==
    << "kani" >>
    \o (IF o.harness # None THEN << "--harness", o.harness[1] >> ELSE << >>)
    \o (IF o.tests THEN << "--tests" >> ELSE << >>)
    \o (IF o.output_format # "" THEN << "--output-format=terse" >> ELSE << >>)
    \o Flatten([ k \in 1..Len(o.enable_unstable) |->
                   << "--enable-unstable", o.enable_unstable[k] >> ])
    \o (IF o.concrete_playback
        THEN << "-Z", "concrete-playback", "--concrete-playback=print" >> ELSE << >>)
    \o (IF o.coverage THEN << "--coverage" >> ELSE << >>)
    \o o.extra_args

\* format!("{}\n{}", stdout, stderr): the lines of stdout, the line the
\* added newline ends, the lines of stderr.
combined_output(out) == out.stdout \o << EmptyLine >> \o out.stderr

\* KaniOutputParser: each operation keeps the lines of its kind, in order,
\* and passes over every other line.
OfKind(text, kind) == SelectSeq(text, LAMBDA l : l.kind = kind)

parse_harnesses(text) ==
    LET ls == OfKind(text, "harness")
    IN  [ k \in 1..Len(ls) |->
            [ name |-> ls[k].name, status |-> ls[k].status,
              checks_passed |-> ls[k].n, checks_failed |-> ls[k].m ] ]

parse_failed_checks(text) ==
    LET ls == OfKind(text, "check")
    IN  [ k \in 1..Len(ls) |->
            [ description |-> ls[k].name,
              line |-> IF ls[k].n = 0 THEN None ELSE Some(ls[k].n) ] ]

parse_verification_time(text) ==
    LET ls == OfKind(text, "time")
    IN  IF ls = << >> THEN None ELSE Some(ls[1].n)

\* parse_output, line 191 to 201.
Summary(success, hs, failed_checks) ==
    IF success
    THEN [ text |-> "Verification successful!", total |-> Len(hs),
           failed |-> 0, check_failures |-> 0 ]
    ELSE [ text |-> "Verification failed.", total |-> Len(hs),
           failed |-> Len(SelectSeq(hs, LAMBDA h : h.status = "FAILED")),
           check_failures |-> Len(failed_checks) ]

VerificationResult(text, success) ==
    [ success           |-> success,
      summary           |-> Summary(success, parse_harnesses(text),
                                    parse_failed_checks(text)),
      harnesses         |-> parse_harnesses(text),
      failed_checks     |-> parse_failed_checks(text),
      verification_time |-> parse_verification_time(text),
      raw_output        |-> text ]

\* A Result<VerificationResult>.
OkResult(r) == [ ok |-> TRUE, value |-> Some(r) ]
ErrResult == [ ok |-> FALSE, value |-> None ]

parse_output_success_from_harnesses(text, success) ==
    OkResult(VerificationResult(text,
        /\ success
        /\ \A k \in 1..Len(parse_harnesses(text)) :
              parse_harnesses(text)[k].status # "FAILED"
        /\ parse_failed_checks(text) = << >>))

\* parse_output, line 183 to 211: always Ok.
parse_output(text, success) == OkResult(VerificationResult(text, success))

\* verify, line 106 to 156: the path check, then the command.
verify_build ==
    /\ w_pc = "verify"
    /\ IF ~path_exists
       THEN /\ verify_result' = Some(ErrResult)
            /\ w_pc' = "returned"
            /\ UNCHANGED cmd
       ELSE /\ cmd' = Some(BuildCommand(options))
            /\ w_pc' = "output"
            /\ UNCHANGED verify_result
    /\ UNCHANGED << options, path_exists, spawns, output >>
    /\ UNCHANGED vars

\* verify, line 159 to 162: cmd.output(), which fails when the child cannot
\* be spawned and otherwise waits for its exit and collects its output.
verify_output ==
    /\ w_pc = "output"
    /\ spawns' = spawns + 1
    /\ \/ /\ verify_result' = Some(ErrResult)
          /\ w_pc' = "returned"
          /\ UNCHANGED output
       \/ /\ \E ok \in BOOLEAN, so \in SeqsUpTo(Lines, MaxLines),
               se \in { << >>, << JunkLine >> } :
                output' = Some([ success |-> ok, stdout |-> so, stderr |-> se ])
          /\ w_pc' = "parse"
          /\ UNCHANGED verify_result
    /\ UNCHANGED << options, path_exists, cmd >>
    /\ UNCHANGED vars

\* verify, line 164 to 179: the output is parsed and the result returned.
verify_parse ==
    /\ w_pc = "parse"
    /\ LET parsed == parse_output(combined_output(output[1]), output[1].success)
       IN  verify_result' = Some(IF parsed.ok THEN parsed ELSE ErrResult)
    /\ w_pc' = "returned"
    /\ UNCHANGED << options, path_exists, cmd, spawns, output >>
    /\ UNCHANGED vars

WrapperInit ==
    /\ pc = "main"
    /\ argv = << >>
    /\ Idle
    /\ w_pc = "verify"
    /\ options \in AllOptions
    /\ path_exists \in BOOLEAN
    /\ cmd = None
    /\ spawns = 0
    /\ output = None
    /\ verify_result = None

WrapperNext ==
    \/ verify_build
    \/ verify_output
    \/ verify_parse

SpecWrapper == WrapperInit /\ [][WrapperNext]_<< vars, wvars >>

\* C11: verify returns an error, and no VerificationResult, in exactly two
\* cases: options.path does not exist, and then no child is spawned, or the
\* child cannot be spawned.  Whenever the child ran to its exit verify
\* returns a VerificationResult whose success is the child's exit-status
\* success, whatever harness statuses and failed checks were parsed from
\* its output, and whatever lines of the output were not understood.
C11_VerifyErrors ==
    /\ ~path_exists => (spawns = 0 /\ cmd = None /\ output = None)
    /\ spawns <= 1
    /\ w_pc = "returned" =>
          /\ verify_result # None
          /\ ~verify_result[1].ok <=> (~path_exists \/ (spawns = 1 /\ output = None))
          /\ ~verify_result[1].ok => verify_result[1].value = None
          /\ output # None =>
                /\ verify_result[1].ok
                /\ verify_result[1].value # None
                /\ verify_result[1].value[1].success = output[1].success
    /\ w_pc # "returned" => verify_result = None

C11_Witness ==
    /\ w_pc = "returned"
    /\ output # None
    /\ output[1].success
    /\ output[1].stdout = << Line("harness", "h2", "FAILED", 1, 1), JunkLine >>
    /\ verify_result[1].ok
    /\ verify_result[1].value[1].success
    /\ verify_result[1].value[1].harnesses[1].status = "FAILED"

=============================================================================
